---------------------------- MODULE Spec2Model ----------------------------
(***************************************************************************)
(* A model of rotate_mac_address (src/__main__.py): the generator          *)
(* generate_mac_addresses, its consumer run_main_loop, the handlers of     *)
(* main, and the pure helpers they call.                                   *)
(*                                                                         *)
(* Text is modelled as a sequence of strings (its pieces, or its           *)
(* characters where the code looks inside it); a float is modelled as a    *)
(* binary floating-point number of FloatBits significant bits.             *)
(***************************************************************************)
EXTENDS Integers, Sequences, FiniteSets, TLC

(***************************************************************************)
(* Bounds of the model.                                                    *)
(***************************************************************************)
\* Exit statuses the external command may return: 0..MaxReturnCode.
MaxReturnCode == 1
\* Number of distinct random-draw sequences offered to one loop iteration.
NumLoopDraws == 2
\* Length of the remembered suffix of the outcome history.
MaxHist == 6
\* Raw draws offered to each randint call of the address check: this many
\* from each end of the range.
DigitSample == 1
\* Significant bits of the modelled float; random.random() yields multiples
\* of 2^-FloatBits, as it yields multiples of 2^-53 for the 53-bit double.
FloatBits == 11
\* Longest sample string given to underscored_to_capitalised on its own.
MaxKeyLen == 3
\* Largest maximum_error_count passed to run_main_loop on its own.
MaxErrorCountArgument == 5

(***************************************************************************)
(* Program constants (src/__main__.py, lines 26-36).                       *)
(***************************************************************************)
DEFAULT_DEVICE_NAME == <<"eth0">>
DEFAULT_CYCLE_SECONDS == 30 * 60
DEFAULT_MAXIMUM_MAC_ADDRESS_RANDOMISATION_SEQUENTIAL_ERRORS == 3

\* dict(intel='00:1b:77', ...): the items in insertion order, key and prefix
\* as their characters.
VENDORS ==
  << <<<<"i", "n", "t", "e", "l">>,
       <<"0", "0", ":", "1", "b", ":", "7", "7">>>>,
     <<<<"h", "e", "w", "l", "e", "t", "t", "_", "p", "a", "c", "k", "a", "r", "d">>,
       <<"0", "0", ":", "1", "b", ":", "7", "8">>>>,
     <<<<"f", "o", "x", "c", "o", "n", "n">>,
       <<"0", "0", ":", "0", "1", ":", "6", "c">>>>,
     <<<<"c", "i", "s", "c", "o">>,
       <<"0", "0", ":", "1", "0", ":", "2", "9">>>>,
     <<<<"a", "m", "d">>,
       <<"0", "0", ":", "0", "c", ":", "8", "7">>>> >>

VendorKeys == {VENDORS[i][1] : i \in 1..Len(VENDORS)}

\* VENDORS[key]
VendorPrefix(key) ==
  LET i == CHOOSE j \in 1..Len(VENDORS) : VENDORS[j][1] = key IN VENDORS[i][2]

(***************************************************************************)
(* Text helpers.                                                           *)
(***************************************************************************)
LowerCase ==
  <<"a", "b", "c", "d", "e", "f", "g", "h", "i", "j", "k", "l", "m",
    "n", "o", "p", "q", "r", "s", "t", "u", "v", "w", "x", "y", "z">>
UpperCase ==
  <<"A", "B", "C", "D", "E", "F", "G", "H", "I", "J", "K", "L", "M",
    "N", "O", "P", "Q", "R", "S", "T", "U", "V", "W", "X", "Y", "Z">>
DecimalDigits == <<"0", "1", "2", "3", "4", "5", "6", "7", "8", "9">>

Range(s) == {s[i] : i \in 1..Len(s)}

\* str.upper() of one character
upper(c) ==
  IF c \in Range(LowerCase)
    THEN UpperCase[CHOOSE i \in 1..Len(LowerCase) : LowerCase[i] = c]
    ELSE c

\* the regular expression class \w
IsWordChar(c) ==
  c \in Range(LowerCase) \cup Range(UpperCase) \cup Range(DecimalDigits) \cup {"_"}

\* str(n) of an integer n >= 0, as its characters
RECURSIVE IntToStr(_)
IntToStr(n) ==
  IF n < 10 THEN <<DecimalDigits[n + 1]>>
  ELSE IntToStr(n \div 10) \o <<DecimalDigits[(n % 10) + 1]>>

\* sep.join(parts)
Join(parts, sep) ==
  LET joined[i \in 0..Len(parts)] ==
        IF i = 0 THEN <<>>
        ELSE IF i = 1 THEN parts[1]
        ELSE joined[i - 1] \o sep \o parts[i]
  IN joined[Len(parts)]

\* text.split(sep) for a one-character separator
RECURSIVE SplitFrom(_, _, _)
SplitFrom(text, sep, current) ==
  IF Len(text) = 0 THEN <<current>>
  ELSE IF Head(text) = sep
    THEN <<current>> \o SplitFrom(Tail(text), sep, <<>>)
    ELSE SplitFrom(Tail(text), sep, Append(current, Head(text)))

Split(text, sep) == SplitFrom(text, sep, <<>>)

\* re.sub('_(\w)', lambda x: ' ' + x.group(1).upper(), text): the matches are
\* taken left to right and do not overlap.
RECURSIVE SubUnderscored(_)
SubUnderscored(text) ==
  IF Len(text) = 0 THEN <<>>
  ELSE IF Len(text) >= 2 /\ text[1] = "_" /\ IsWordChar(text[2])
    THEN <<" ", upper(text[2])>> \o SubUnderscored(Tail(Tail(text)))
    ELSE <<text[1]>> \o SubUnderscored(Tail(text))

\* Variant: the first character is left as it is.
FirstNotCapitalised(string) == SubUnderscored(string)

underscored_to_capitalised(string) ==
  LET first == IF 0 < Len(string) THEN <<upper(string[1])>> ELSE <<>>
      rest == SubUnderscored(IF 0 < Len(string) THEN Tail(string) ELSE <<>>)
  IN first \o rest

\* make_mapping(underscored_to_capitalised, VENDORS.keys())
vendor_names == [k \in VendorKeys |-> underscored_to_capitalised(k)]

(***************************************************************************)
(* The random source.  A call of the random module takes a raw draw r >= 0 *)
(* and maps it into the range it was asked for.                            *)
(***************************************************************************)
\* random.randint(a, b)
randint(a, b, r) == a + (r % (b - a + 1))

\* random.choice(items)
choice(items, r) == items[(r % Len(items)) + 1]

choose_vendor(r) == choice(VENDORS, r)

\* Variant: the digits are drawn from 0 to 9.
SectionWithZero(r1, r2) ==
  IntToStr(randint(0, 9, r1)) \o IntToStr(randint(0, 9, r2))

make_random_mac_address_section(r1, r2) ==
  IntToStr(randint(1, 9, r1)) \o IntToStr(randint(1, 9, r2))

\* rnd: the seven raw draws the call consumes, in order.
make_random_mac_address(rnd) ==
  LET item == choose_vendor(rnd[1])
      vendor == item[1]
      prefix == item[2]
      sections == [i \in 1..3 |->
                     make_random_mac_address_section(rnd[2 * i], rnd[2 * i + 1])]
      address == prefix \o <<":">> \o sections[1] \o <<":">> \o sections[2]
                        \o <<":">> \o sections[3]
  IN <<vendor, address>>

(***************************************************************************)
(* Floats.  A float is the integer n standing for n / 2^Scale, kept to     *)
(* FloatBits significant bits: every operation rounds its exact result to  *)
(* the nearest such number, ties to even, as IEEE 754 arithmetic does.     *)
(***************************************************************************)
Scale == FloatBits + 2
One == 2 ^ Scale

Abs(n) == IF n < 0 THEN 0 - n ELSE n

RECURSIVE BitLength(_)
BitLength(n) == IF n = 0 THEN 0 ELSE 1 + BitLength(n \div 2)

RoundToFloat(n) ==
  LET a == Abs(n)
      shift == BitLength(a) - FloatBits
  IN IF shift <= 0 THEN n
     ELSE LET q == 2 ^ shift
              hi == a \div q
              lo == a % q
              up == (2 * lo > q) \/ (2 * lo = q /\ hi % 2 = 1)
              r == (IF up THEN hi + 1 ELSE hi) * q
          IN IF n < 0 THEN 0 - r ELSE r

\* float(i) of an int
FromInt(i) == RoundToFloat(i * One)
FAdd(a, b) == RoundToFloat(a + b)
FSub(a, b) == RoundToFloat(a - b)
FMul(a, b) == RoundToFloat((a * b) \div One)
\* int * float: the int is converted first; the operands used here keep the
\* exact product i * a within the integers, so it is rounded once.
IntMul(i, a) == RoundToFloat(i * a)

\* the literals 0.5 and 0.25
Half == One \div 2
DEFAULT_CYCLE_VARIANCE == One \div 4

\* random.random(): the raw draw k stands for k / 2^FloatBits in [0, 1).
RandomDraws == 0..(2 ^ FloatBits - 1)
random(k) == (k % (2 ^ FloatBits)) * (One \div (2 ^ FloatBits))

\* Variant: the draw is not centred on zero.
VariateNotCentred(seconds, variance, k) ==
  LET delta == FMul(random(k), variance)
  IN FAdd(FromInt(seconds), IntMul(seconds, delta))

\* variate(seconds, variance) with the raw draw k of its random.random()
variate(seconds, variance, k) ==
  LET delta == FMul(FSub(random(k), Half), variance)
  IN FAdd(FromInt(seconds), IntMul(seconds, delta))

(***************************************************************************)
(* Exceptions: the class, the message given to the constructor, and the    *)
(* two attributes of subprocess.CalledProcessError that str() reads.       *)
(***************************************************************************)
MakeException(kind, args, returncode, cmd) ==
  [kind |-> kind, args |-> args, returncode |-> returncode, cmd |-> cmd]

NoException == MakeException("", <<>>, 0, <<>>)
CalledProcessError(returncode, cmd) ==
  MakeException("CalledProcessError", <<>>, returncode, cmd)
MissingProgramError(msg) == MakeException("MissingProgramError", msg, 0, <<>>)
TooManyMacAddressChangeErrorsError(msg) ==
  MakeException("TooManyMacAddressChangeErrorsError", msg, 0, <<>>)
RuntimeError(msg) == MakeException("RuntimeError", msg, 0, <<>>)
ValueError(msg) == MakeException("ValueError", msg, 0, <<>>)
UnicodeDecodeError(msg) == MakeException("UnicodeDecodeError", msg, 0, <<>>)
KeyboardInterrupt == MakeException("KeyboardInterrupt", <<>>, 0, <<>>)

\* the classes, and the class each derives from ("": none)
Classes ==
  {"BaseException", "Exception", "KeyboardInterrupt", "RuntimeError",
   "ValueError", "UnicodeError", "UnicodeDecodeError",
   "SubprocessError", "CalledProcessError",
   "MissingProgramError", "TooManyMacAddressChangeErrorsError", ""}

BaseClass ==
  [kind \in Classes |->
     CASE kind = "MissingProgramError" -> "RuntimeError"
       [] kind = "TooManyMacAddressChangeErrorsError" -> "RuntimeError"
       [] kind = "RuntimeError" -> "Exception"
       [] kind = "ValueError" -> "Exception"
       [] kind = "UnicodeError" -> "ValueError"
       [] kind = "UnicodeDecodeError" -> "UnicodeError"
       [] kind = "CalledProcessError" -> "SubprocessError"
       [] kind = "SubprocessError" -> "Exception"
       [] kind = "Exception" -> "BaseException"
       [] kind = "KeyboardInterrupt" -> "BaseException"
       [] OTHER -> ""]

\* a class and the classes it derives from, directly or not
Ancestors[kind \in Classes] ==
  IF kind = "" THEN {} ELSE {kind} \cup Ancestors[BaseClass[kind]]

isinstance(e, cls) == cls \in Ancestors[e.kind]

\* repr() of a tuple of strings
ReprTuple(t) ==
  <<"(">> \o Join([i \in 1..Len(t) |-> <<"'">> \o t[i] \o <<"'">>], <<", ">>)
          \o <<")">>

\* str(e); CalledProcessError.__str__ for an exit status above 0
Str(e) ==
  IF e.kind = "CalledProcessError"
    THEN <<"Command '">> \o ReprTuple(e.cmd)
           \o <<"' returned non-zero exit status ">> \o IntToStr(e.returncode)
           \o <<".">>
    ELSE e.args

(***************************************************************************)
(* The external world: the platform, the search path, the command.         *)
(***************************************************************************)
Platforms == {"linux", "darwin"}

\* what the command may write to its standard output: nothing, the text
\* "ok\n", or the byte 0xff, which no UTF-8 text holds
Outputs == {<<>>, <<111, 107, 10>>, <<255>>}

\* the exit statuses of the command
ReturnCodes == 0..MaxReturnCode

\* What a call gives back: the value it returns, or the exception it raises.
Returns(value) == [raised |-> NoException, value |-> value]
Raises(e) == [raised |-> e, value |-> ""]

\* bytes.decode() of ASCII lower-case letters, the line feed and the byte
\* 0xff
Chr(b) == IF b \in 97..122 THEN LowerCase[b - 96] ELSE "\n"
InvalidBytes(bytes) == {i \in 1..Len(bytes) : bytes[i] = 255}

decode(bytes) ==
  IF InvalidBytes(bytes) # {}
    THEN LET first == CHOOSE i \in InvalidBytes(bytes) :
                        \A j \in InvalidBytes(bytes) : i <= j
         IN Raises(UnicodeDecodeError(
              <<"'utf-8' codec can't decode byte 0xff in position ">>
                \o IntToStr(first - 1) \o <<": invalid start byte">>))
    ELSE Returns([i \in 1..Len(bytes) |-> Chr(bytes[i])])

\* shutil.which(program): the path found, or "None"
which(program, found) == IF found THEN "/sbin/" \o program ELSE "None"

\* Variant: the result of which() is returned unchecked.
PathUnchecked(program, found) == Returns(which(program, found))

get_program_path(program, found) ==
  LET path == which(program, found)
  IN IF path = "None"
       THEN Raises(MissingProgramError(
              <<"the ">> \o <<program>> \o <<" program was not found">>))
       ELSE Returns(path)

\* The variant set_device_mac_address is bound to: the program it looks up
\* and the command it runs.
Program(platform) == IF platform = "linux" THEN "ip" ELSE "ifconfig"

Command(platform, path, device_name, address) ==
  IF platform = "linux"
    THEN <<<<path>>, <<"link">>, <<"set">>, <<"dev">>, device_name,
           <<"addr">>, address>>
    ELSE <<<<"ifconfig">>, device_name, <<"ether">>, address>>

\* Variant: the exit status is not checked.
OutputUnchecked(cmd, returncode, output) ==
  [raised |-> NoException, value |-> output]

\* subprocess.check_output(cmd) of a command that exits with returncode
check_output(cmd, returncode, output) ==
  IF returncode # 0 THEN [raised |-> CalledProcessError(returncode, cmd),
                          value |-> <<>>]
  ELSE [raised |-> NoException, value |-> output]

\* if 0 < len(output): print(output.decode()): the lines printed and the
\* exception raised
PrintOutput(output) ==
  IF 0 < Len(output)
    THEN LET text == decode(output)
         IN IF text.raised # NoException
              THEN [raised |-> text.raised, lines |-> <<>>]
              ELSE [raised |-> NoException, lines |-> <<text.value>>]
    ELSE [raised |-> NoException, lines |-> <<>>]

\* The part of mac_os / linux after the look-up: the lines printed and the
\* exception raised.
RunCommand(platform, path, device_name, address, returncode, out) ==
  LET r == check_output(Command(platform, path, device_name, address),
                        returncode, out)
  IN IF r.raised # NoException
       THEN [raised |-> r.raised, lines |-> <<>>]
       ELSE PrintOutput(r.value)

\* Variant: the status is spelt another way.
FailedMessage(e) == <<"failed", e>>

\* yield 'error', e (line 142)
ErrorMessage(e) == <<"error", e>>

\* Variant: the vendor is left out.
OkMessageWithoutVendor(vendor, address) == <<"ok", address>>

\* yield 'ok', vendor, address (line 140)
OkMessage(vendor, address) == <<"ok", vendor, address>>

\* Variants: except Exception as e,
\* except (subprocess.CalledProcessError, RuntimeError) as e, and a bare
\* except.
CatchesAnyException(e) == isinstance(e, "Exception")
CatchesBaseException(e) == isinstance(e, "BaseException")
CatchesRuntimeErrorToo(e) ==
  isinstance(e, "CalledProcessError") \/ isinstance(e, "RuntimeError")

\* except subprocess.CalledProcessError as e (generate_mac_addresses)
GeneratorCatches(e) == isinstance(e, "CalledProcessError")

(***************************************************************************)
(* run_main_loop: what one pass of its for loop does with a message.       *)
(***************************************************************************)
\* 3 - len(errors), the number the warning shows (line 169)
WarningCount(errors) == 3 - Len(errors)

\* str(n) of any integer
SignedIntToStr(n) == IF n < 0 THEN <<"-">> \o IntToStr(0 - n) ELSE IntToStr(n)

WarningLine(errors) ==
  <<"An error occured; the program will stop if ">>
    \o SignedIntToStr(WarningCount(errors)) \o <<" more occur sequentially.">>

SetLine(vendor, mac_address) ==
  <<"Set to MAC address ">> \o mac_address \o <<" of vendor ">>
    \o vendor_names[vendor] \o <<".">>

\* Variant: the list is not cleared.
ErrorsKept(errors) == errors

\* errors.clear() (line 158)
ClearErrors(errors) == <<>>

\* Variant: the error is put at the front.
ErrorAtFront(errors, error) == <<error>> \o errors

\* errors.append(error) (line 171)
AppendError(errors, error) == Append(errors, error)

\* Variants: 3 < len(errors), and 2 <= len(errors).
TooManyErrorsLate(errors) == 3 < Len(errors)
TooManyErrorsEarly(errors) == 2 <= Len(errors)

\* 3 <= len(errors) (line 172)
TooManyErrors(errors) == 3 <= Len(errors)

\* Variant: the message is the last error alone.
LastErrorOnly(errors) == Str(errors[Len(errors)])

\* '\n'.join(map(str, errors)) (line 173)
ErrorsMessage(errors) == Join([i \in 1..Len(errors) |-> Str(errors[i])], <<"\n">>)

\* Variant: the threshold and the countdown are taken from
\* maximum_error_count.
RunMainLoopUsingArgument(message, errors, maximum_error_count) ==
  LET status == Head(message)
      data == Tail(message)
  IN IF status = "ok"
       THEN IF Len(data) # 2
              THEN [errors |-> errors, lines |-> <<>>,
                    raised |-> ValueError(<<"wrong number of values to unpack">>)]
              ELSE [errors |-> ClearErrors(errors),
                    lines |-> <<SetLine(data[1], data[2])>>,
                    raised |-> NoException]
     ELSE IF status = "error"
       THEN IF Len(data) # 1
              THEN [errors |-> errors, lines |-> <<>>,
                    raised |-> ValueError(<<"wrong number of values to unpack">>)]
              ELSE LET appended == AppendError(errors, data[1])
                   IN [errors |-> appended,
                       lines |-> <<<<"An error occured; the program will stop if ">>
                                     \o SignedIntToStr(maximum_error_count - Len(errors))
                                     \o <<" more occur sequentially.">>>>,
                       raised |-> IF maximum_error_count <= Len(appended)
                                    THEN TooManyMacAddressChangeErrorsError(
                                           ErrorsMessage(appended))
                                    ELSE NoException]
     ELSE [errors |-> errors, lines |-> <<>>,
           raised |-> RuntimeError(<<"unknown status: ", status>>)]

\* The body of the for loop: the list afterwards, the lines printed, the
\* exception raised.  maximum_error_count is not read.
run_main_loop(message, errors, maximum_error_count) ==
  LET status == Head(message)
      data == Tail(message)
  IN IF status = "ok"
       THEN IF Len(data) # 2
              THEN [errors |-> errors, lines |-> <<>>,
                    raised |-> ValueError(<<"wrong number of values to unpack">>)]
              ELSE [errors |-> ClearErrors(errors),
                    lines |-> <<SetLine(data[1], data[2])>>,
                    raised |-> NoException]
     ELSE IF status = "error"
       THEN IF Len(data) # 1
              THEN [errors |-> errors, lines |-> <<>>,
                    raised |-> ValueError(<<"wrong number of values to unpack">>)]
              ELSE LET appended == AppendError(errors, data[1])
                   IN [errors |-> appended,
                       lines |-> <<WarningLine(errors)>>,
                       raised |-> IF TooManyErrors(appended)
                                    THEN TooManyMacAddressChangeErrorsError(
                                           ErrorsMessage(appended))
                                    ELSE NoException]
     ELSE [errors |-> errors, lines |-> <<>>,
           raised |-> RuntimeError(<<"unknown status: ", status>>)]

(***************************************************************************)
(* main: the handler an exception leaving run_main_loop meets.             *)
(***************************************************************************)
InterruptNotice == <<"Keyboard interrupt caught; finished cycling MAC addresses.">>

\* Variant: main has no except KeyboardInterrupt clause.
HandlerWithoutInterruptClause(e) ==
  IF isinstance(e, "Exception")
    THEN [exit |-> "error", lines |-> <<<<"An error occured: ">> \o Str(e)>>]
  ELSE [exit |-> "uncaught", lines |-> <<>>]

\* Variant: the handlers print and raise again.
HandlerReraises(e) ==
  IF isinstance(e, "KeyboardInterrupt")
    THEN [exit |-> "uncaught", lines |-> <<InterruptNotice>>]
  ELSE [exit |-> "uncaught", lines |-> <<<<"An error occured: ">> \o Str(e)>>]

main_handler(e) ==
  IF isinstance(e, "KeyboardInterrupt")
    THEN [exit |-> "interrupted", lines |-> <<InterruptNotice>>]
  ELSE IF isinstance(e, "Exception")
    THEN [exit |-> "error", lines |-> <<<<"An error occured: ">> \o Str(e)>>]
  ELSE [exit |-> "uncaught", lines |-> <<>>]

(***************************************************************************)
(* The state of the running program.                                       *)
(***************************************************************************)
VARIABLES
  platform,   \* sys.platform
  pc,         \* where control is: "generate" (line 137), "lookup" (lines 85,
              \* 97), "exec" (lines 87, 99), "process" (the message is with
              \* run_main_loop, line 153), "sleep" (line 143), "done" (main
              \* is past its try statement)
  candidate,  \* vendor, address of generate_mac_addresses
  path,       \* what shutil.which gave in this iteration ("unset" before)
  proc,       \* the command run in this iteration: its status and output
  message,    \* the message yielded and not yet processed (<<>>: none)
  errors,     \* errors of run_main_loop
  printed,    \* the lines printed since this iteration began
  raised,     \* the exception that left run_main_loop
  main_exit,  \* the handler of main that took it ("": none yet)
  outcomes,   \* history: the statuses yielded, the last MaxHist of them
  thrown,     \* history: the CalledProcessErrors raised since the command
              \* last succeeded, the last MaxHist of them
  slept,      \* history: the durations of the sleeps finished since the
              \* last address was generated
  call        \* a call of a pure function checked on its own

vars == <<platform, pc, candidate, path, proc, message, errors, printed,
          raised, main_exit, outcomes, thrown, slept, call>>

\* parse_arguments() with no arguments given
device_name == DEFAULT_DEVICE_NAME
cycle_seconds == DEFAULT_CYCLE_SECONDS

NoProc == [ran |-> FALSE, returncode |-> 0, output |-> <<>>]
NoCall == [fn |-> "", args |-> <<>>, ret |-> <<>>]

Running == {"generate", "lookup", "exec", "process", "sleep"}

LastN(s, n) == IF Len(s) <= n THEN s ELSE SubSeq(s, Len(s) - n + 1, Len(s))

\* The raw draws offered to one call of make_random_mac_address in the
\* loop: NumLoopDraws sequences of seven (the first gives intel
\* 00:1b:77:23:45:67, the second hewlett_packard 00:1b:78:46:81:35).
LoopDraw(i) == [j \in 1..7 |-> (i - 1) + (j - 1) * i]
LoopDraws == {LoopDraw(i) : i \in 1..NumLoopDraws}

\* What make_random_mac_address returns for these draws.
LoopCandidates == {make_random_mac_address(rnd) : rnd \in LoopDraws}

\* The raw draws offered to the random.random() of one sleep, and what
\* variate(cycle_seconds, DEFAULT_CYCLE_VARIANCE) returns for them.
SleepDraws == {0, 2 ^ FloatBits - 1}
SleepDurations ==
  {variate(cycle_seconds, DEFAULT_CYCLE_VARIANCE, k) : k \in SleepDraws}

MainInit ==
  /\ platform \in Platforms
  /\ pc = "generate"
  /\ candidate = <<<<>>, <<>>>>
  /\ path = "unset"
  /\ proc = NoProc
  /\ message = <<>>
  /\ errors = <<>>
  /\ printed = <<<<"Rotating MAC address...">>>>
  /\ raised = NoException
  /\ main_exit = ""
  /\ outcomes = <<>>
  /\ thrown = <<>>
  /\ slept = <<>>

Init == MainInit /\ call = NoCall

\* An exception leaves run_main_loop and meets the handlers of main
\* (lines 201-208); `lines` is what was printed before it was raised.
ReachMain(e, lines) ==
  \E h \in {main_handler(e)} :
    /\ raised' = e
    /\ main_exit' = h.exit
    /\ printed' = printed \o lines \o h.lines
    /\ pc' = "done"

\* An exception is raised inside the try statement of the generator
\* (lines 138-142): it is yielded as an 'error' message or it leaves the
\* generator, and with it run_main_loop.
RaiseInTry(e, lines) ==
  IF GeneratorCatches(e)
    THEN /\ message' = ErrorMessage(e)
         /\ outcomes' = LastN(Append(outcomes, "error"), MaxHist)
         /\ printed' = printed \o lines
         /\ pc' = "process"
         /\ UNCHANGED <<raised, main_exit>>
    ELSE /\ ReachMain(e, lines)
         /\ UNCHANGED <<message, outcomes>>

\* vendor, address = make_random_mac_address() (line 137)
Generate ==
  /\ pc = "generate"
  /\ \E c \in LoopCandidates : candidate' = c
  /\ path' = "unset"
  /\ proc' = NoProc
  /\ printed' = <<>>
  /\ slept' = <<>>
  /\ pc' = "lookup"
  /\ UNCHANGED <<platform, message, errors, raised, main_exit, outcomes,
                 thrown, call>>

\* set_mac_address(address), first half: get_program_path (lines 85, 97)
Lookup ==
  /\ pc = "lookup"
  /\ \E found \in BOOLEAN :
       \E r \in {get_program_path(Program(platform), found)} :
          IF r.raised = NoException
            THEN /\ path' = r.value
                 /\ pc' = "exec"
                 /\ UNCHANGED <<message, outcomes, printed, raised, main_exit>>
            ELSE /\ path' = "None"
                 /\ RaiseInTry(r.raised, <<>>)
  /\ UNCHANGED <<platform, candidate, proc, errors, thrown, slept, call>>

\* set_mac_address(address), second half: the command runs and its output
\* is printed (lines 87-94, 99-109); then the yield (lines 140, 142)
Exec ==
  /\ pc = "exec"
  /\ \E returncode \in ReturnCodes, out \in Outputs :
       \E r \in {RunCommand(platform, path, device_name, candidate[2],
                            returncode, out)} :
          /\ proc' = [ran |-> TRUE, returncode |-> returncode, output |-> out]
          /\ IF r.raised = NoException
               THEN /\ message' = OkMessage(candidate[1], candidate[2])
                    /\ outcomes' = LastN(Append(outcomes, "ok"), MaxHist)
                    /\ thrown' = <<>>
                    /\ printed' = printed \o r.lines
                    /\ pc' = "process"
                    /\ UNCHANGED <<raised, main_exit>>
               ELSE /\ thrown' = IF isinstance(r.raised, "CalledProcessError")
                                     THEN LastN(Append(thrown, r.raised), MaxHist)
                                     ELSE thrown
                    /\ RaiseInTry(r.raised, r.lines)
  /\ UNCHANGED <<platform, candidate, path, errors, slept, call>>

\* one pass of the for loop of run_main_loop (lines 152-177)
RunMainLoop ==
  /\ pc = "process"
  /\ \E r \in {run_main_loop(
                   message, errors,
                   DEFAULT_MAXIMUM_MAC_ADDRESS_RANDOMISATION_SEQUENTIAL_ERRORS)} :
        /\ errors' = r.errors
        /\ message' = <<>>
        /\ IF r.raised = NoException
             THEN /\ printed' = printed \o r.lines
                  /\ pc' = "sleep"
                  /\ UNCHANGED <<raised, main_exit>>
             ELSE ReachMain(r.raised, r.lines)
  /\ UNCHANGED <<platform, candidate, path, proc, outcomes, thrown, slept,
                 call>>

\* Variant: the generator goes round without sleeping.
SleepSkipped ==
  /\ pc = "sleep"
  /\ pc' = "generate"
  /\ UNCHANGED <<platform, candidate, path, proc, message, errors, printed,
                 raised, main_exit, outcomes, thrown, slept, call>>

\* time.sleep(variate(cycle_seconds, DEFAULT_CYCLE_VARIANCE)) (line 143)
Sleep ==
  /\ pc = "sleep"
  /\ \E seconds \in SleepDurations : slept' = Append(slept, seconds)
  /\ pc' = "generate"
  /\ UNCHANGED <<platform, candidate, path, proc, message, errors, printed,
                 raised, main_exit, outcomes, thrown, call>>

\* The operator interrupts: KeyboardInterrupt is raised where control is.
Interrupt ==
  /\ pc \in Running
  /\ IF pc \in {"lookup", "exec"}
       THEN RaiseInTry(KeyboardInterrupt, <<>>)
       ELSE ReachMain(KeyboardInterrupt, <<>>) /\ UNCHANGED <<message, outcomes>>
  /\ UNCHANGED <<platform, candidate, path, proc, errors, thrown, slept, call>>

Next == Generate \/ Lookup \/ Exec \/ RunMainLoop \/ Sleep \/ Interrupt

Spec == Init /\ [][Next]_vars

\* The steps of the program itself; every one of them is taken once it can
\* be, provided each command invocation and each sleep returns.
Step == Generate \/ Lookup \/ Exec \/ RunMainLoop \/ Sleep

LiveSpec == Init /\ [][Next]_vars /\ WF_vars(Step)

(***************************************************************************)
(* Properties of the loop.                                                 *)
(***************************************************************************)
TooMany == "TooManyMacAddressChangeErrorsError"

Last(s) == s[Len(s)]

\* the number of 'error' statuses at the end of a history
RECURSIVE TrailingErrors(_)
TrailingErrors(h) ==
  IF Len(h) = 0 \/ Last(h) # "error" THEN 0
  ELSE 1 + TrailingErrors(SubSeq(h, 1, Len(h) - 1))

\* C1: too-many-errors is raised while the 3rd consecutive failure is
\* processed, neither after the 1st or 2nd nor after a 4th, and its message
\* is the string forms of these three errors, in the order they occurred,
\* joined by newlines.
C1_RaisedOnThirdFailure ==
  /\ Len(thrown) <= 3
  /\ raised.kind = TooMany =>
       /\ Len(thrown) = 3
       /\ raised.args = Str(thrown[1]) \o <<"\n">> \o Str(thrown[2])
                          \o <<"\n">> \o Str(thrown[3])
       /\ pc = "done"
  /\ (Len(thrown) = 3 /\ message = <<>>) => raised.kind = TooMany

\* three failures from the start, the first and the last of them different
C1_Witness ==
  /\ raised.kind = TooMany
  /\ outcomes = <<"error", "error", "error">>
  /\ thrown[1] # thrown[3]

\* C2: the loop stops with too-many-errors at the first position of the
\* outcome history whose 3 most recent outcomes are all failures: once an
\* outcome is processed, the error window is as long as the run of failures
\* that ends the history, so an 'ok' empties it whatever it held.
C2_StopsAtFirstRunOfThree ==
  /\ raised.kind = TooMany =>
       /\ Len(outcomes) >= 3
       /\ \A i \in (Len(outcomes) - 2)..Len(outcomes) : outcomes[i] = "error"
  /\ (message = <<>> /\ raised.kind # TooMany) => TrailingErrors(outcomes) < 3
  /\ message = <<>> => Len(errors) = TrailingErrors(outcomes)

C2_Witness ==
  /\ raised.kind = TooMany
  /\ outcomes = <<"error", "error", "ok", "error", "error", "error">>

\* C3: while the loop is running the error window is shorter than 3; a
\* window of 3 or more exists only with too-many-errors raised.
C3_WindowBelowThreshold ==
  /\ pc \in Running => Len(errors) < 3
  /\ Len(errors) >= 3 => (pc = "done" /\ raised.kind = TooMany)

C3_Witness == pc = "sleep" /\ Len(errors) = 2

\* C4: an operator interrupt, wherever control is in the loop, ends the
\* program through the clean-shutdown handler: the notice is the last line
\* printed, the error handler is not taken, nothing leaves main.
C4_InterruptIsCleanShutdown ==
  [][Interrupt =>
       /\ pc' = "done"
       /\ raised' = KeyboardInterrupt
       /\ main_exit' = "interrupted"
       /\ printed' = Append(printed, InterruptNotice)]_vars

\* interrupted while the command was being invoked
C4_Witness ==
  /\ main_exit = "interrupted"
  /\ path \notin {"unset", "None"}
  /\ ~proc.ran

\* C5: when the executable is not found the invocation fails with
\* MissingProgramError and runs no command; on either platform a command is
\* run only after a look-up that found the executable.
C5_LookupPrecedesCommand ==
  /\ path = "None" =>
       /\ raised.kind = "MissingProgramError"
       /\ ~proc.ran
       /\ pc = "done"
  /\ (pc = "exec" \/ proc.ran) => path = "/sbin/" \o Program(platform)

C5_Witness ==
  /\ path = "None"
  /\ platform # "linux"
  /\ raised.args = <<"the ", "ifconfig", " program was not found">>

\* C6 as stated: a MissingProgramError is caught at the iteration boundary
\* and counted like a command failure: it is yielded as an 'error' message,
\* appended to the error window with the countdown warning, and it does not
\* itself end the loop.
C6_Original ==
  path = "None" =>
    /\ raised.kind # "MissingProgramError"
    /\ message # <<>> => message[2].kind = "MissingProgramError"
    /\ message = <<>> =>
         /\ errors # <<>>
         /\ Last(errors).kind = "MissingProgramError"

\* C6, amended: a MissingProgramError raised while applying an address is
\* not caught at the iteration boundary: it leaves the error window as it
\* was, prints no countdown warning, and ends the loop through the error
\* handler of main, which prints 'An error occured: ' and its message.
C6_MissingProgramEndsLoop ==
  [][(pc = "lookup" /\ path' = "None") =>
       /\ errors' = errors
       /\ message' = message
       /\ outcomes' = outcomes
       /\ pc' = "done"
       /\ raised'.kind = "MissingProgramError"
       /\ main_exit' = "error"
       /\ printed' = Append(printed,
                       <<"An error occured: ", "the ", Program(platform),
                         " program was not found">>)]_vars

\* the program went missing with two failures in the window
C6_Witness ==
  /\ path = "None"
  /\ Len(errors) = 2
  /\ main_exit = "error"

\* the text of the output <<111, 107, 10>>
OutputText == <<"o", "k", "\n">>

\* the output is text: bytes.decode() returns
Decodable(output) == decode(output).raised = NoException

\* C7 as stated: non-empty output of the command is printed whatever the
\* exit status.
C7_Original ==
  (proc.ran /\ 0 < Len(proc.output) /\ Decodable(proc.output)) =>
    decode(proc.output).value \in Range(printed)

\* C7, amended: non-empty output of the command that is UTF-8 text is
\* printed when the command exits zero; when it exits non-zero
\* CalledProcessError is raised before the print and the output is not
\* printed; when it exits zero and the output is no UTF-8 text,
\* UnicodeDecodeError is raised instead of printing and ends the loop.
C7_OutputPrintedOnSuccessOnly ==
  proc.ran =>
    /\ OutputText \in Range(printed)
         <=> (proc.output = <<111, 107, 10>> /\ proc.returncode = 0)
    /\ proc.returncode # 0 =>
         /\ thrown # <<>>
         /\ Last(thrown).kind = "CalledProcessError"
         /\ Last(thrown).returncode = proc.returncode
    /\ (proc.returncode = 0 /\ ~Decodable(proc.output)) =>
         /\ raised = decode(proc.output).raised
         /\ raised.kind = "UnicodeDecodeError"
         /\ printed = <<<<"An error occured: ">> \o Str(raised)>>
         /\ pc = "done"

C7_Witness ==
  /\ proc.ran
  /\ proc.returncode = 0
  /\ proc.output = <<111, 107, 10>>
  /\ Last(printed) = OutputText

\* C8: in every execution with no interrupt, no fatal error and every run
\* of consecutive command failures shorter than 3, the loop never ends and
\* always eventually invokes the command again.
C8_LoopRunsForever ==
  [](raised.kind \in {"", TooMany} /\ Len(thrown) < 3)
    => ([](pc # "done") /\ []<>(pc = "exec"))

C8_Witness ==
  /\ outcomes = <<"error", "error", "ok", "error", "error", "ok">>
  /\ pc = "exec"
  /\ raised = NoException

(***************************************************************************)
(* variate on its own: one call for every draw of random.random().         *)
(***************************************************************************)
InitVariate ==
  /\ MainInit
  /\ call \in {[fn |-> "variate", args |-> <<cycle_seconds, k>>, ret |-> <<>>] :
                 k \in RandomDraws}

CallVariate ==
  /\ call.fn = "variate"
  /\ call.ret = <<>>
  /\ call' = [call EXCEPT
                !.ret = <<variate(call.args[1], DEFAULT_CYCLE_VARIANCE,
                                  call.args[2])>>]
  /\ UNCHANGED <<platform, pc, candidate, path, proc, message, errors,
                 printed, raised, main_exit, outcomes, thrown, slept>>

VariateSpec == InitVariate /\ [][CallVariate]_vars

\* the distance between neighbouring floats from 1024 up to 2048
UlpOfResult == ((2 ^ 11) * One) \div (2 ^ FloatBits)

RawDigitSample == {r \in 0..8 : r < DigitSample \/ r > 8 - DigitSample}

AddressDraws ==
  {<<c>> \o d : c \in 0..(Len(VENDORS) - 1), d \in [1..6 -> RawDigitSample]}

InitAddress ==
  /\ MainInit
  /\ call \in {[fn |-> "make_random_mac_address", args |-> rnd, ret |-> <<>>] :
                 rnd \in AddressDraws}

CallAddress ==
  /\ call.fn = "make_random_mac_address"
  /\ call.ret = <<>>
  /\ call' = [call EXCEPT !.ret = make_random_mac_address(call.args)]
  /\ UNCHANGED <<platform, pc, candidate, path, proc, message, errors,
                 printed, raised, main_exit, outcomes, thrown, slept>>

AddressSpec == InitAddress /\ [][CallAddress]_vars

\* C10: make_random_mac_address returns a key of the vendor table and an
\* address of exactly six colon-separated segments, the first three being
\* that vendor's prefix and the last three two characters each, both of
\* them digits from 1 to 9.
C10_AddressShape ==
  call.ret # <<>> =>
    LET vendor == call.ret[1]
        segments == Split(call.ret[2], ":")
    IN /\ vendor \in VendorKeys
       /\ Len(segments) = 6
       /\ SubSeq(segments, 1, 3) = Split(VendorPrefix(vendor), ":")
       /\ \A i \in 4..6 :
            /\ Len(segments[i]) = 2
            /\ \A j \in 1..2 :
                 segments[i][j] \in {"1", "2", "3", "4", "5", "6", "7", "8", "9"}

C10_Witness ==
  call.ret = <<<<"a", "m", "d">>,
               <<"0", "0", ":", "0", "c", ":", "8", "7", ":",
                 "1", "9", ":", "9", "1", ":", "9", "9">>>>

(***************************************************************************)
(* underscored_to_capitalised on its own: one call for every key of the    *)
(* vendor table and for every short string over a sample alphabet.         *)
(***************************************************************************)
KeyAlphabet == {"a", "k", "_", "7", "-"}

SampleKeys ==
  VendorKeys \cup UNION {[1..n -> KeyAlphabet] : n \in 0..MaxKeyLen}

InitNames ==
  /\ MainInit
  /\ call \in {[fn |-> "underscored_to_capitalised", args |-> key, ret |-> <<>>] :
                 key \in SampleKeys}

CallNames ==
  /\ call.fn = "underscored_to_capitalised"
  /\ call.ret = <<>>
  /\ call' = [call EXCEPT !.ret = <<underscored_to_capitalised(call.args)>>]
  /\ UNCHANGED <<platform, pc, candidate, path, proc, message, errors,
                 printed, raised, main_exit, outcomes, thrown, slept>>

NameSpec == InitNames /\ [][CallNames]_vars

\* the key, character by character: the first upper-cased, an underscore
\* turned into a space, a character right after an underscore upper-cased,
\* every other character as it is
Capitalised(key) ==
  [i \in 1..Len(key) |->
     IF i = 1 THEN upper(key[1])
     ELSE IF key[i] = "_" THEN " "
     ELSE IF key[i - 1] = "_" THEN upper(key[i])
     ELSE key[i]]

\* every underscore of the key stands between two characters of a word
\* that are not underscores, as in the keys of the vendor table
UnderscoresSeparateWords(key) ==
  \A i \in 1..Len(key) :
    key[i] = "_" =>
      /\ 1 < i /\ i < Len(key)
      /\ key[i - 1] # "_" /\ key[i + 1] # "_"
      /\ IsWordChar(key[i + 1])

\* C11: for every key of the vendor table underscored_to_capitalised returns
\* the key with its first letter upper-cased, every underscore replaced by
\* a space and every letter right after an underscore upper-cased, all
\* other characters unchanged, and vendor_names holds this value for every
\* vendor key and for nothing else; the same holds of every sample string
\* whose underscores separate words.
C11_VendorNamesCapitalised ==
  /\ DOMAIN vendor_names = VendorKeys
  /\ \A i \in 1..Len(VENDORS) : UnderscoresSeparateWords(VENDORS[i][1])
  /\ call.ret # <<>> =>
       /\ UnderscoresSeparateWords(call.args) =>
            call.ret[1] = Capitalised(call.args)
       /\ call.args \in VendorKeys =>
            /\ vendor_names[call.args] = Capitalised(call.args)
            /\ "_" \notin Range(call.ret[1])
            /\ Len(call.ret[1]) = Len(call.args)

\* hewlett_packard gives Hewlett Packard
C11_Witness ==
  /\ call.args = <<"h", "e", "w", "l", "e", "t", "t", "_",
                   "p", "a", "c", "k", "a", "r", "d">>
  /\ call.ret = <<<<"H", "e", "w", "l", "e", "t", "t", " ",
                    "P", "a", "c", "k", "a", "r", "d">>>>
  /\ vendor_names[call.args] = call.ret[1]

(***************************************************************************)
(* More properties of the loop.                                            *)
(***************************************************************************)
\* the countdown warning showing the number n
WarningShowing(n) ==
  <<"An error occured; the program will stop if ">>
    \o SignedIntToStr(n) \o <<" more occur sequentially.">>

\* C12: once a failure is processed the error is in the error window and
\* the warning printed for it shows 3 - len(errors) with this error already
\* counted, the number of further consecutive failures after which the
\* loop stops: 2 after the first failure, 1 after the second, 0 with the
\* third.
C12_Original ==
  /\ (pc = "sleep" /\ errors # <<>>) =>
       Last(printed) = WarningShowing(3 - Len(errors))
  /\ raised.kind = TooMany =>
       printed[Len(printed) - 1] = WarningShowing(3 - Len(errors))

\* C13: an attempt to change the address is preceded by exactly one sleep
\* since the attempt before it, of variate(cycle_seconds, 0.25) seconds,
\* and by none when it is the first; the generator sleeps only once
\* run_main_loop has processed the outcome of the attempt (the message is
\* consumed and its line is printed) without raising; with too-many-errors
\* raised no sleep follows the failure.
C13_OneSleepBetweenAttempts ==
  /\ Len(slept) <= 1
  /\ pc = "generate" => (Len(slept) = 1 <=> outcomes # <<>>)
  /\ pc = "sleep" =>
       /\ slept = <<>>
       /\ message = <<>>
       /\ raised = NoException
       /\ outcomes # <<>>
       /\ Last(outcomes) = "ok" =>
            Last(printed) = SetLine(candidate[1], candidate[2])
       /\ Last(outcomes) = "error" =>
            /\ Last(errors) = Last(thrown)
            /\ Last(printed) = WarningShowing(4 - Len(errors))
  /\ slept # <<>> =>
       /\ message = <<>>
       /\ raised.kind \in {"", "KeyboardInterrupt"}
       /\ 1575 * One <= slept[1] /\ slept[1] <= 2025 * One
       /\ \E k \in SleepDraws :
            slept[1] = variate(cycle_seconds, DEFAULT_CYCLE_VARIANCE, k)
  /\ raised.kind = TooMany => (slept = <<>> /\ pc = "done")

\* the shortest sleep after a failure followed a success
C13_Witness ==
  /\ pc = "generate"
  /\ slept = <<1575 * One>>
  /\ outcomes = <<"ok", "error">>

\* a line is a countdown warning
IsWarning(line) == line # <<>> /\ line[1] = WarningShowing(0)[1]

\* C14: only a non-zero exit of the command is added to the error window.
\* The window holds CalledProcessErrors with a non-zero exit status and
\* changes only by appending the one just yielded or by being cleared;
\* every exception of another class raised in an iteration (a missing
\* program, output that does not decode, an interrupt; a message of unknown
\* status if there were one) leaves the window and the pending message as
\* they are, prints no countdown warning and ends the loop in the same
\* step; of all classes the generator catches CalledProcessError alone.
C14_OnlyCommandFailuresCounted ==
  [][/\ \A i \in 1..Len(errors') :
          /\ errors'[i].kind = "CalledProcessError"
          /\ errors'[i].returncode # 0
     /\ errors' # errors =>
          \/ errors' = <<>> /\ Head(message) = "ok"
          \/ /\ Head(message) = "error"
             /\ errors' = Append(errors, message[2])
             /\ IsWarning(printed'[Len(printed) + 1])
     /\ (raised' # raised /\ raised'.kind # TooMany) =>
          /\ raised'.kind \in {"MissingProgramError", "UnicodeDecodeError",
                               "KeyboardInterrupt"}
          /\ errors' = errors
          /\ message' = message
          /\ pc' = "done"
          /\ Len(printed') = Len(printed) + 1
          /\ ~IsWarning(Last(printed'))
     /\ \E r \in {run_main_loop(<<"unknown">>, errors, 3)} :
          /\ r.errors = errors
          /\ r.lines = <<>>
          /\ r.raised = RuntimeError(<<"unknown status: ", "unknown">>)
     /\ \A cls \in Classes \ {""} :
          GeneratorCatches(MakeException(cls, <<>>, 1, <<>>))
            <=> cls = "CalledProcessError"]_vars

\* output that does not decode ended the loop with two failures in the
\* window
C14_Witness ==
  /\ raised.kind = "UnicodeDecodeError"
  /\ Len(errors) = 2
  /\ main_exit = "error"
  /\ Len(printed) = 1

\* the pieces of text occur in the line, one after the other
Contains(line, text) ==
  \E k \in 0..(Len(line) - Len(text)) : SubSeq(line, k + 1, k + Len(text)) = text

\* the lines a step prints (address generation starts a new record)
NewLines ==
  IF Len(printed') >= Len(printed) /\ SubSeq(printed', 1, Len(printed)) = printed
    THEN SubSeq(printed', Len(printed) + 1, Len(printed'))
    ELSE printed'

\* C15 as stated: when the program has ended, the error text of every
\* failure has been printed; stated of the failure of the last iteration
\* once it is in the window, all lines printed since being on record.
C15_Original ==
  (pc = "done" /\ proc.ran /\ proc.returncode # 0 /\ message = <<>>) =>
    \E i \in 1..Len(printed) : Contains(printed[i], Str(Last(thrown)))

\* C15, amended: the error text of a failure is printed only in the
\* too-many-errors message, which main prints with the texts of the three
\* consecutive failures in the window; a failure otherwise gives the
\* countdown warning alone, which holds no error text, so the failures a
\* success clears from the window and the failures pending when an
\* interrupt or another error ends the loop are not printed.
C15_ErrorTextOnlyInFinalMessage ==
  [][/\ \A i \in 1..Len(NewLines) :
          \A e \in Range(errors) \cup Range(thrown) \cup Range(thrown') :
             Contains(NewLines[i], Str(e)) =>
               /\ raised' # raised
               /\ raised'.kind = TooMany
               /\ e \in Range(errors')
               /\ NewLines[i] = <<"An error occured: ">> \o raised'.args
     /\ (raised' # raised /\ raised'.kind = TooMany) =>
          /\ Len(errors') = 3
          /\ \A e \in Range(errors') : Contains(Last(printed'), Str(e))
          /\ Last(printed') = <<"An error occured: ">> \o Str(errors'[1])
                                \o <<"\n">> \o Str(errors'[2])
                                \o <<"\n">> \o Str(errors'[3])
     /\ (errors # <<>> /\ errors' = <<>>) =>
          NewLines = <<SetLine(candidate[1], candidate[2])>>
     /\ (raised' # raised /\ raised'.kind # TooMany) =>
          /\ Len(NewLines) = 1
          /\ \A e \in Range(errors) \cup Range(thrown) :
               ~Contains(NewLines[1], Str(e))]_vars

\* a failure was cleared by a success and another was pending when the
\* interrupt came
C15_Witness ==
  /\ raised = KeyboardInterrupt
  /\ outcomes = <<"error", "ok", "error">>
  /\ Len(errors) = 1
  /\ printed = <<WarningShowing(3), InterruptNotice>>

\* the command is being invoked: the executable is found and
\* check_output has not returned
CommandInProgress == path \notin {"unset", "None"} /\ ~proc.ran

\* C16 as stated: the loop does not become INTERRUPTED while an external
\* command invocation is in progress.
C16_Original == main_exit = "interrupted" => ~CommandInProgress

\* C16, amended: an operator interrupt is taken wherever control is in the
\* loop: between iterations, during the sleep, and also during the look-up
\* and while the command is being invoked.  Taken during the invocation it
\* is not caught by the generator: no outcome is yielded or counted, and
\* the loop becomes INTERRUPTED in that step.
C16_InterruptTakenAnywhere ==
  /\ [](pc \in Running => ENABLED Interrupt)
  /\ [][(Interrupt /\ pc = "exec") =>
          /\ CommandInProgress
          /\ CommandInProgress'
          /\ main_exit' = "interrupted"
          /\ pc' = "done"
          /\ message' = <<>>
          /\ outcomes' = outcomes
          /\ errors' = errors
          /\ NewLines = <<InterruptNotice>>]_vars

\* interrupted while the command was being invoked after two failures
C16_Witness ==
  /\ main_exit = "interrupted"
  /\ CommandInProgress
  /\ Len(errors) = 2
  /\ outcomes = <<"error", "error">>

\* C17: once an exception has reached main (too-many-errors, an interrupt,
\* any other error) the program is at its end: the handler has printed its
\* message as the last line, nothing leaves main, and no step follows: no
\* address is generated, no look-up or command is run, no message is
\* processed, no sleep is made.
C17_StoppedIsTerminal ==
  /\ [](/\ pc = "done" <=> raised # NoException
        /\ pc = "done" <=> main_exit # ""
        /\ pc = "done" =>
             /\ ~ENABLED Next
             /\ main_exit \in {"interrupted", "error"}
             /\ main_exit = "interrupted" <=> raised = KeyboardInterrupt
             /\ Last(printed) = IF raised = KeyboardInterrupt
                                  THEN InterruptNotice
                                  ELSE <<"An error occured: ">> \o Str(raised))
  /\ [][main_exit = "" /\ raised = NoException /\ pc \in Running]_vars

\* STOPPED: too-many-errors was raised and its message printed
C17_Witness ==
  /\ pc = "done"
  /\ raised.kind = TooMany
  /\ main_exit = "error"
  /\ Last(printed) = <<"An error occured: ">> \o raised.args
  /\ ~ENABLED Next

\* C18: every message the generator yields is 'ok' with a vendor of the
\* table and an address, or 'error' with one CalledProcessError, so
\* run_main_loop raises neither RuntimeError('unknown status') nor the
\* ValueError of a failed unpacking, neither in the states reached nor
\* when it is given the pending message.
C18_UnknownStatusUnreachable ==
  /\ message # <<>> =>
       /\ pc = "process" \/ raised = KeyboardInterrupt
       /\ \/ /\ Head(message) = "ok"
             /\ Len(message) = 3
             /\ message[2] \in VendorKeys
             /\ <<message[2], message[3]>> = candidate
          \/ /\ Head(message) = "error"
             /\ Len(message) = 2
             /\ message[2].kind = "CalledProcessError"
             /\ message[2] = Last(thrown)
       /\ run_main_loop(message, errors, 3).raised.kind \in {"", TooMany}
  /\ raised.kind \notin {"RuntimeError", "ValueError"}
  /\ raised.kind \in {"", TooMany, "MissingProgramError",
                      "UnicodeDecodeError", "KeyboardInterrupt"}

\* both kinds of message have been yielded and processed
C18_Witness ==
  /\ pc = "process"
  /\ Head(message) = "error"
  /\ outcomes = <<"ok", "error">>
  /\ errors = <<>>

(***************************************************************************)
(* run_main_loop on its own: called with a maximum_error_count from 1 to   *)
(* MaxErrorCountArgument and an iterator that yields scripted messages.    *)
(***************************************************************************)
ScriptCandidate == make_random_mac_address(LoopDraw(1))

\* the command failing with each non-zero exit status
ScriptErrors(p) ==
  {CalledProcessError(
     returncode,
     Command(p, which(Program(p), TRUE), device_name, ScriptCandidate[2])) :
     returncode \in ReturnCodes \ {0}}

\* the messages the iterator may yield: the two the generator yields, one
\* of another status, one of the wrong length
ScriptMessages(p) ==
  {OkMessage(ScriptCandidate[1], ScriptCandidate[2]), <<"unknown">>,
   <<"ok", ScriptCandidate[1]>>}
    \cup {ErrorMessage(e) : e \in ScriptErrors(p)}

InitScripted ==
  /\ MainInit
  /\ call \in {[fn |-> "run_main_loop", args |-> <<n>>, ret |-> <<>>] :
                 n \in 1..MaxErrorCountArgument}

\* for message in mac_addresses (line 152): the iterator yields
ScriptedYield ==
  /\ call.fn = "run_main_loop"
  /\ pc = "generate"
  /\ \E m \in ScriptMessages(platform) :
       /\ message' = m
       /\ outcomes' = LastN(Append(outcomes, Head(m)), MaxHist)
  /\ printed' = <<>>
  /\ pc' = "process"
  /\ UNCHANGED <<platform, candidate, path, proc, errors, raised, main_exit,
                 thrown, slept, call>>

\* the body of the for loop, with the maximum_error_count of the call; an
\* exception leaves run_main_loop
ScriptedRunMainLoop ==
  /\ call.fn = "run_main_loop"
  /\ pc = "process"
  /\ \E r \in {run_main_loop(message, errors, call.args[1])} :
        /\ errors' = r.errors
        /\ printed' = printed \o r.lines
        /\ raised' = r.raised
        /\ pc' = IF r.raised = NoException THEN "generate" ELSE "done"
  /\ message' = <<>>
  /\ UNCHANGED <<platform, candidate, path, proc, main_exit, outcomes,
                 thrown, slept, call>>

ScriptedNext == ScriptedYield \/ ScriptedRunMainLoop

ScriptedSpec == InitScripted /\ [][ScriptedNext]_vars

\* C19: whatever maximum_error_count is passed, run_main_loop stops with
\* too-many-errors after exactly 3 consecutive failures, neither sooner
\* nor later, and the countdown warning shows 3 less the failures counted
\* before this one.
C19_ThresholdIgnoresArgument ==
  /\ call.args[1] \in 1..MaxErrorCountArgument
  /\ raised.kind = TooMany =>
       /\ Len(errors) = 3
       /\ TrailingErrors(outcomes) = 3
  /\ (message = <<>> /\ raised = NoException) =>
       /\ Len(errors) = TrailingErrors(outcomes)
       /\ Len(errors) < 3
  /\ (message = <<>> /\ outcomes # <<>> /\ Last(outcomes) = "error") =>
       /\ Len(errors) = 3 <=> raised.kind = TooMany
       /\ Last(printed) = WarningShowing(3 - (Len(errors) - 1))

\* called with maximum_error_count = 1, the loop has gone on after two
\* failures and a success and stops with the third failure of the next run
C19_Witness ==
  /\ call.args = <<1>>
  /\ raised.kind = TooMany
  /\ outcomes = <<"error", "error", "ok", "error", "error", "error">>
  /\ printed = <<WarningShowing(1)>>

=============================================================================
